---------------------------- MODULE Spec2Model ----------------------------
(***************************************************************************)
(* Model of app.py: the Streamlit page that submits search queries to the  *)
(* Apify actor, waits for the run, fetches the dataset items and flattens  *)
(* them into a table.                                                      *)
(*                                                                         *)
(* Strings are sequences of chunks (each chunk a piece of text).  A chunk  *)
(* that is " " is whitespace, a chunk "\n" is a line break.  Python's None *)
(* (and a key that .get() does not find) is the value None below.          *)
(***************************************************************************)
EXTENDS Integers, Sequences, FiniteSets, TLC

VARIABLES
    pc,           \* position of the script / of the function under call
    raw_queries,  \* st.text_area "Queries (one per line)"
    max_pages,    \* st.slider "Max pages per query"
    country,      \* st.text_input "Country code"
    lang,         \* st.text_input "Language code"
    safe,         \* st.selectbox "SafeSearch"
    preset,       \* st.selectbox "Recency" (or build_tbs's preset argument)
    start_date,   \* start date (NoDate = None)
    end_date,     \* end date (NoDate = None)
    today,        \* date.today()
    queries,      \* the handler's local `queries`
    tbs,          \* the handler's local `tbs` / build_tbs's result
    payload,      \* the JSON body built by run_actor_and_get_items
    http,         \* the HTTP requests issued so far, with their outcomes
    items,        \* the dataset items (flatten_organic's argument)
    df,           \* flatten_organic's result
    df2,          \* flatten_organic applied to the records of df
    ui            \* the elements rendered on the page, in order

vars == <<pc, raw_queries, max_pages, country, lang, safe, preset, start_date,
          end_date, today, queries, tbs, payload, http, items, df, df2, ui>>

---------------------------------------------------------------------------
(* Strings *)

None == <<"<None>">>

IsWs(c) == c \in {" ", "\n"}

RECURSIVE LStrip(_)
LStrip(s) == IF s # <<>> /\ IsWs(Head(s)) THEN LStrip(Tail(s)) ELSE s

RECURSIVE RStrip(_)
RStrip(s) ==
    IF s # <<>> /\ IsWs(s[Len(s)]) THEN RStrip(SubSeq(s, 1, Len(s) - 1)) ELSE s

\* str.strip()
Strip(s) == RStrip(LStrip(s))

\* str.lower() / str.upper() on one chunk
LowerChunk(c) ==
    CASE c = "Any time" -> "any time"
      [] c = "Last 24 hours" -> "last 24 hours"
      [] c = "Last 48 hours" -> "last 48 hours"
      [] c = "LAST 48 HOURS" -> "last 48 hours"
      [] c = "Last 7 days" -> "last 7 days"
      [] c = "Last 30 days" -> "last 30 days"
      [] c = "Last 12 months" -> "last 12 months"
      [] c = "Custom range" -> "custom range"
      [] c = "Yesterday" -> "yesterday"
      [] c = "New " -> "new "
      [] c = "Survey" -> "survey"
      [] c = "Press Release" -> "press release"
      [] OTHER -> c

UpperChunk(c) ==
    CASE c = "us" -> "US"
      [] c = "gb" -> "GB"
      [] OTHER -> c

Lower(s) == [i \in 1..Len(s) |-> LowerChunk(s[i])]
Upper(s) == [i \in 1..Len(s) |-> UpperChunk(s[i])]

\* `pat in s`
Contains(s, pat) ==
    \E i \in 0..(Len(s) - Len(pat)) : SubSeq(s, i + 1, i + Len(pat)) = pat

\* Python truthiness of a string-or-None (and of a list: <<>> is falsy)
Truthy(v) == v # None /\ v # <<>>

\* `a or b`
Or(a, b) == IF Truthy(a) THEN a ELSE b

---------------------------------------------------------------------------
(* Dates *)

NoDate == [y |-> 0, m |-> 0, d |-> 0]

IsLeap(y) == (y % 4 = 0 /\ y % 100 # 0) \/ y % 400 = 0

DaysInMonth(y, m) ==
    IF m = 2 THEN (IF IsLeap(y) THEN 29 ELSE 28)
    ELSE IF m \in {4, 6, 9, 11} THEN 30 ELSE 31

\* d - timedelta(days=1)
PrevDay(d) ==
    IF d.d > 1 THEN [d EXCEPT !.d = d.d - 1]
    ELSE IF d.m > 1 THEN [y |-> d.y, m |-> d.m - 1, d |-> DaysInMonth(d.y, d.m - 1)]
    ELSE [y |-> d.y - 1, m |-> 12, d |-> 31]

RECURSIVE MinusDays(_, _)
MinusDays(d, n) == IF n = 0 THEN d ELSE MinusDays(PrevDay(d), n - 1)

\* a > b on dates
DateGT(a, b) ==
    \/ a.y > b.y
    \/ a.y = b.y /\ a.m > b.m
    \/ a.y = b.y /\ a.m = b.m /\ a.d > b.d

Digit(n) == <<"0", "1", "2", "3", "4", "5", "6", "7", "8", "9">>[n + 1]

Pad2(n) == <<Digit(n \div 10), Digit(n % 10)>>

Pad4(n) == <<Digit(n \div 1000), Digit((n \div 100) % 10),
             Digit((n \div 10) % 10), Digit(n % 10)>>

\* d.strftime('%m/%d/%Y')
Strftime(d) == Pad2(d.m) \o <<"/">> \o Pad2(d.d) \o <<"/">> \o Pad4(d.y)

\* f"cdr:1,cd_min:{start...},cd_max:{end...}"
CustomWindow(start, end) ==
    <<"cdr:1,cd_min:">> \o Strftime(start) \o <<",cd_max:">> \o Strftime(end)

---------------------------------------------------------------------------
(* build_tbs *)

\* variant: the 48-hour branch keeps a caller-supplied start and end
build_tbs_48h_caller(p, start, end) ==
    IF start # NoDate /\ end # NoDate THEN CustomWindow(start, end)
    ELSE CustomWindow(MinusDays(today, 2), today)

\* the "last 48 hours" branch: start and end are overwritten from today
build_tbs_48h(p, start, end) ==
    LET start2 == MinusDays(today, 2)
        end2 == today
    IN  CustomWindow(start2, end2)

build_tbs(preset0, start, end) ==
    LET p == Lower(Strip(preset0)) IN
    IF p = <<"any time">> THEN None
    ELSE IF p = <<"last 24 hours">> THEN <<"qdr:d">>
    ELSE IF p = <<"last 48 hours">> THEN build_tbs_48h(p, start, end)
    ELSE IF p = <<"last 7 days">> THEN <<"qdr:w">>
    ELSE IF p = <<"last 30 days">> THEN <<"qdr:m">>
    ELSE IF p = <<"last 12 months">> THEN <<"qdr:y">>
    ELSE IF p = <<"custom range">> THEN
        (IF start = NoDate \/ end = NoDate THEN None
         ELSE CustomWindow(start, end))
    ELSE None

\* the options of the "Recency" selectbox
PresetOptions ==
    {<<"Any time">>, <<"Last 24 hours">>, <<"Last 48 hours">>, <<"Last 7 days">>,
     <<"Last 30 days">>, <<"Last 12 months">>, <<"Custom range">>}

\* other preset arguments a caller of build_tbs may pass
PresetVariants ==
    {<<" ", "LAST 48 HOURS", " ">>, <<"last 48 hours">>, <<"Yesterday">>}

Dates ==
    {[y |-> 2024, m |-> 3, d |-> 1], [y |-> 2024, m |-> 1, d |-> 2],
     [y |-> 2023, m |-> 3, d |-> 1], [y |-> 2023, m |-> 12, d |-> 15]}

Idle ==
    /\ raw_queries = <<>> /\ max_pages = 1 /\ country = <<>> /\ lang = <<>>
    /\ safe = <<"active">> /\ queries = <<>> /\ payload = <<>> /\ http = <<>>
    /\ items = <<>> /\ df = <<>> /\ df2 = <<>> /\ ui = <<>>

InitTbs ==
    /\ Idle
    /\ pc = "tbs_call"
    /\ preset \in PresetOptions \cup PresetVariants
    /\ start_date \in Dates \cup {NoDate}
    /\ end_date \in Dates \cup {NoDate}
    /\ today \in Dates
    /\ tbs = None

BuildTbsCall ==
    /\ pc = "tbs_call"
    /\ tbs' = build_tbs(preset, start_date, end_date)
    /\ pc' = "tbs_done"
    /\ UNCHANGED <<raw_queries, max_pages, country, lang, safe, preset, start_date,
                   end_date, today, queries, payload, http, items, df, df2, ui>>

SpecTbs == InitTbs /\ [][BuildTbsCall]_vars

---------------------------------------------------------------------------
(* flatten_organic *)

\* the row appended for one organic result r of a page whose query is `query`
OrganicRow(query, r) ==
    [query |-> query, title |-> r.title, link |-> Or(r.url, r.link),
     snippet |-> Or(r.snippet, r.description), source |-> r.source,
     date |-> r.date]

\* the rows one dataset item contributes (the body of `for it in items`)
RowsOfItem(it) ==
    LET query == Or(Or(Or(it.query, it.searchQuery), it.search), <<>>)
        organic == IF it.organicResults # <<>> THEN it.organicResults
                   ELSE it.organic_results
        link == Or(it.url, it.link)
    IN  IF organic # <<>>
        THEN [i \in 1..Len(organic) |-> OrganicRow(query, organic[i])]
        ELSE IF Truthy(link)
             THEN <<[query |-> query, title |-> it.title, link |-> link,
                     snippet |-> Or(it.snippet, it.description),
                     source |-> it.source, date |-> it.date]>>
             ELSE <<>>

RECURSIVE CollectRows(_)
CollectRows(its) ==
    IF its = <<>> THEN <<>> ELSE RowsOfItem(Head(its)) \o CollectRows(Tail(its))

\* df.dropna(subset=["link"])
DropNa(rows) == SelectSeq(rows, LAMBDA r : r.link # None)

\* df["link"] = df["link"].astype(str).str.strip()
StripLinks(rows) == [i \in 1..Len(rows) |-> [rows[i] EXCEPT !.link = Strip(@)]]

\* df[~df["link"].str.contains("google.com/url", na=False)]
DropRedirects(rows) ==
    SelectSeq(rows, LAMBDA r : ~Contains(r.link, <<"google.com/url">>))

RECURSIVE KeepIdx(_, _, _)
KeepIdx(rows, keep, i) ==
    IF i > Len(rows) THEN <<>>
    ELSE (IF i \in keep THEN <<rows[i]>> ELSE <<>>) \o KeepIdx(rows, keep, i + 1)

\* variant: drop_duplicates(keep="last")
DropDuplicatesKeepLast(rows) ==
    KeepIdx(rows,
            {i \in 1..Len(rows) :
                ~\E j \in (i + 1)..Len(rows) : rows[j].link = rows[i].link},
            1)

\* df.drop_duplicates(subset=["link"])   (keep="first" is the default)
DropDuplicates(rows) ==
    KeepIdx(rows,
            {i \in 1..Len(rows) :
                ~\E j \in 1..(i - 1) : rows[j].link = rows[i].link},
            1)

kw == {<<"new study">>, <<"survey">>, <<"report">>, <<"findings">>,
       <<"new research">>, <<"announced">>, <<"press release">>}

\* df["snippet"].fillna("").str.lower().apply(lambda s: any(k in s for k in kw))
LikelyPr(snippet) ==
    LET s == Lower(IF snippet = None THEN <<>> ELSE snippet)
    IN  \E k \in kw : Contains(s, k)

\* df[cols]
WithLikelyPr(rows) ==
    [i \in 1..Len(rows) |->
        [likely_pr |-> LikelyPr(rows[i].snippet), query |-> rows[i].query,
         title |-> rows[i].title, source |-> rows[i].source,
         date |-> rows[i].date, link |-> rows[i].link,
         snippet |-> rows[i].snippet]]

flatten_organic(its) ==
    LET rows == CollectRows(its)
    IN  IF rows = <<>> THEN <<>>
        ELSE WithLikelyPr(DropDuplicates(DropRedirects(StripLinks(DropNa(rows)))))

\* one row of the table read back as a record (df.to_dict("records"))
RowAsItem(row) ==
    [query |-> row.query, searchQuery |-> None, search |-> None,
     organicResults |-> <<>>, organic_results |-> <<>>, url |-> None,
     link |-> row.link, title |-> row.title, snippet |-> row.snippet,
     description |-> None, source |-> row.source, date |-> row.date]

(* The dataset items the model feeds to flatten_organic. *)

\* total number of JSON records (items plus organic results) in one response
MaxRecords == 3

U1 == <<"https://x.com/1">>
U2 == <<"https://y.org/2">>

Res(url, link, title, snippet, description, source, date) ==
    [url |-> url, link |-> link, title |-> title, snippet |-> snippet,
     description |-> description, source |-> source, date |-> date]

ResultPool ==
    {Res(U1, None, <<"t1">>, <<"New ", "Survey", " finds X">>, None,
         <<"X News">>, <<"Jan 2">>),
     Res(<<" ">> \o U1 \o <<" ">>, None, <<"t2">>, None, <<"dup">>, None, None),
     Res(None, U2, None, <<>>, <<>>, None, None),
     Res(<<"https://www.", "google.com/url", "?q=y">>, None, <<"t3">>, None,
         None, None, None),
     Res(<<>>, <<" ">>, <<"t4">>, None, None, None, None),
     Res(None, <<>>, None, None, None, None, None),
     Res(None, None, <<"t5">>, <<"Press Release">>, None, None, None)}

Page(query, searchQuery, organicResults, organic_results) ==
    [query |-> query, searchQuery |-> searchQuery, search |-> None,
     organicResults |-> organicResults, organic_results |-> organic_results,
     url |-> None, link |-> None, title |-> None, snippet |-> None,
     description |-> None, source |-> None, date |-> None]

PagesOf(organic) ==
    {Page(<<"A">>, None, organic, <<>>), Page(None, <<"B">>, <<>>, organic),
     Page(<<>>, None, organic, <<>>)}

FlatRows ==
    {[query |-> q[1], searchQuery |-> None, search |-> q[2],
      organicResults |-> <<>>, organic_results |-> <<>>, url |-> r.url,
      link |-> r.link, title |-> r.title, snippet |-> r.snippet,
      description |-> r.description, source |-> r.source, date |-> r.date] :
        q \in {<<<<"A">>, None>>, <<None, <<"B">>>>}, r \in ResultPool}

\* the items that hold k JSON records
ItemsOfSize(k) ==
    UNION {PagesOf(o) : o \in [1..(k - 1) -> ResultPool]}
        \cup (IF k = 1 THEN FlatRows ELSE {})

RECURSIVE ResponsesOfSize(_)
ResponsesOfSize(n) ==
    IF n = 0 THEN {<<>>}
    ELSE UNION {{<<it>> \o rest : it \in ItemsOfSize(k),
                                  rest \in ResponsesOfSize(n - k)} : k \in 1..n}

\* `its` is a response of at most MaxRecords records: a first item, then a
\* response of the records that are left
IsResponse(its) ==
    \E n \in 0..MaxRecords :
        IF n = 0 THEN its = <<>>
        ELSE \E k \in 1..n :
                \E rest \in ResponsesOfSize(n - k) :
                    \E it \in ItemsOfSize(k) : its = <<it>> \o rest

InitFlatten ==
    /\ raw_queries = <<>> /\ max_pages = 1 /\ country = <<>> /\ lang = <<>>
    /\ safe = <<"active">> /\ queries = <<>> /\ payload = <<>> /\ http = <<>>
    /\ preset = <<"Any time">> /\ start_date = NoDate /\ end_date = NoDate
    /\ today \in {[y |-> 2024, m |-> 3, d |-> 1]}
    /\ tbs = None /\ ui = <<>>
    /\ pc = "flatten_call"
    /\ IsResponse(items)
    /\ df = <<>> /\ df2 = <<>>

FlattenCall ==
    /\ pc = "flatten_call"
    /\ df' = flatten_organic(items)
    /\ pc' = "flatten_done"
    /\ UNCHANGED <<raw_queries, max_pages, country, lang, safe, preset, start_date,
                   end_date, today, queries, tbs, payload, http, items, df2, ui>>

\* flatten_organic called again, on the records of its own result
FlattenAgain ==
    /\ pc = "flatten_done"
    /\ df2' = flatten_organic([i \in 1..Len(df) |-> RowAsItem(df[i])])
    /\ pc' = "flatten_again_done"
    /\ UNCHANGED <<raw_queries, max_pages, country, lang, safe, preset, start_date,
                   end_date, today, queries, tbs, payload, http, items, df, ui>>

NextFlatten == FlattenCall \/ FlattenAgain

SpecFlatten == InitFlatten /\ [][NextFlatten]_vars

---------------------------------------------------------------------------
(* The "Run test" handler and run_actor_and_get_items *)

\* raw_queries.splitlines()
RECURSIVE SplitLines(_)
SplitLines(s) ==
    IF s = <<>> THEN <<>>
    ELSE IF \E i \in 1..Len(s) : s[i] = "\n"
         THEN LET i == CHOOSE i \in 1..Len(s) :
                          s[i] = "\n" /\ \A j \in 1..(i - 1) : s[j] # "\n"
              IN  <<SubSeq(s, 1, i - 1)>> \o SplitLines(SubSeq(s, i + 1, Len(s)))
         ELSE <<s>>

\* variant: `[q for q in raw_queries.splitlines() if q]`
ParseQueriesNoTrim(raw) == SelectSeq(SplitLines(raw), LAMBDA q : q # <<>>)

\* [q.strip() for q in raw_queries.splitlines() if q.strip()]
ParseQueries(raw) ==
    LET lines == SplitLines(raw)
        kept == SelectSeq(lines, LAMBDA q : Strip(q) # <<>>)
    IN  [i \in 1..Len(kept) |-> Strip(kept[i])]

\* variant: payload["tbs"] = tbs without the `if tbs`
BuildPayloadAlwaysTbs(qs, max_pages_per_query, country_code, language_code, safe_search, tbs0) ==
    [queries |-> [i \in 1..Len(qs) |-> [query |-> qs[i]]],
     maxPagesPerQuery |-> max_pages_per_query, countryCode |-> country_code,
     languageCode |-> language_code, safeSearch |-> safe_search, tbs |-> tbs0]

\* the `payload` dict of run_actor_and_get_items
BuildPayload(qs, max_pages_per_query, country_code, language_code, safe_search, tbs0) ==
    IF Truthy(tbs0)
    THEN [queries |-> [i \in 1..Len(qs) |-> [query |-> qs[i]]],
          maxPagesPerQuery |-> max_pages_per_query, countryCode |-> country_code,
          languageCode |-> language_code, safeSearch |-> safe_search,
          tbs |-> tbs0]
    ELSE [queries |-> [i \in 1..Len(qs) |-> [query |-> qs[i]]],
          maxPagesPerQuery |-> max_pages_per_query, countryCode |-> country_code,
          languageCode |-> language_code, safeSearch |-> safe_search]

\* requests raised: ConnectionError, Timeout (both caught by `except Exception`)
\* or raise_for_status's HTTPError on a status that is not 2xx
TransportFailures == {"connection_error", "timeout", "http_error"}

\* what one requests.post / requests.get exchange can end in
PostOutcomes == TransportFailures \cup {"bad_json", "no_dataset", "ok"}
GetOutcomes == TransportFailures \cup {"bad_json", "ok"}

\* the elements the except clauses render
ErrorElements(outcome) ==
    IF outcome = "http_error" THEN <<"error:http", "code:response_text">>
    ELSE <<"error:exception">>

\* length of the text typed into the queries box, in chunks
MaxRawLen == 3

RawTexts == UNION {[1..n -> {"a", "b", " ", "\n"}] : n \in 0..MaxRawLen}

\* st.slider("Max pages per query", 1, 5, 1)
MinPages == 1
MaxPages == 5

UiDates == {[y |-> 2024, m |-> 3, d |-> 1], [y |-> 2024, m |-> 1, d |-> 2]}

\* the dataset items a successful fetch returns
DatasetSamples ==
    {<<>>,
     <<Page(<<"A">>, None,
            <<Res(U1, None, <<"t1">>, <<"New ", "Survey", " finds X">>, None,
                  <<"X News">>, <<"Jan 2">>),
              Res(None, <<>>, None, None, None, None, None)>>, <<>>)>>}

Init ==
    /\ pc = "idle"
    /\ raw_queries \in RawTexts
    /\ max_pages \in {MinPages, MaxPages}
    /\ country \in {<<>>, <<"us">>}
    /\ lang \in {<<>>, <<"en">>}
    /\ safe \in {<<"active">>, <<"off">>}
    /\ preset \in PresetOptions
    /\ today \in UiDates
    \* start_date = end_date = None unless "Custom range" shows the date inputs
    /\ IF preset = <<"Custom range">>
       THEN start_date \in UiDates /\ end_date \in UiDates
       ELSE start_date = NoDate /\ end_date = NoDate
    /\ queries = <<>> /\ tbs = None /\ payload = <<>> /\ http = <<>>
    /\ items = <<>> /\ df = <<>> /\ df2 = <<>> /\ ui = <<>>

\* the sidebar's date check: a warning, nothing more
DateWarning ==
    IF preset = <<"Custom range">> /\ start_date # NoDate /\ end_date # NoDate
       /\ DateGT(start_date, end_date)
    THEN <<"warning:start_after_end">> ELSE <<>>

\* `if run_btn:` up to the call of run_actor_and_get_items
Submit ==
    /\ pc = "idle"
    /\ queries' = ParseQueries(raw_queries)
    /\ IF queries' = <<>>
       THEN /\ ui' = ui \o DateWarning \o <<"error:no_query">>
            /\ pc' = "stopped"
            /\ tbs' = tbs
       ELSE /\ ui' = ui \o DateWarning
            /\ tbs' = build_tbs(preset, start_date, end_date)
            /\ pc' = "call"
    /\ UNCHANGED <<raw_queries, max_pages, country, lang, safe, preset, start_date,
                   end_date, today, payload, http, items, df, df2>>

\* variant: a failed run request is issued a second time
PostRunRetry ==
    /\ pc = "call"
    /\ payload' = BuildPayload(queries, max_pages, Upper(country), lang, safe, tbs)
    /\ \E outcome \in PostOutcomes :
          /\ http' = Append(http, [method |-> "POST", url |-> "runs",
                                   outcome |-> outcome])
          /\ IF outcome = "ok" THEN pc' = "get" /\ ui' = ui
             ELSE IF outcome \in TransportFailures /\ Len(http) < 1
                  THEN pc' = "call" /\ ui' = ui
                  ELSE pc' = "stopped" /\ ui' = ui \o ErrorElements(outcome)
    /\ UNCHANGED <<raw_queries, max_pages, country, lang, safe, preset, start_date,
                   end_date, today, queries, tbs, items, df, df2>>

\* run_actor_and_get_items up to the run's dataset id, and the except clauses
PostRun ==
    /\ pc = "call"
    /\ payload' = BuildPayload(queries, max_pages, Upper(country), lang, safe, tbs)
    /\ \E outcome \in PostOutcomes :
          /\ http' = Append(http, [method |-> "POST", url |-> "runs",
                                   outcome |-> outcome])
          /\ IF outcome = "ok" THEN pc' = "get" /\ ui' = ui
             ELSE pc' = "stopped" /\ ui' = ui \o ErrorElements(outcome)
    /\ UNCHANGED <<raw_queries, max_pages, country, lang, safe, preset, start_date,
                   end_date, today, queries, tbs, items, df, df2>>

\* variant: a failed dataset fetch is swallowed and rendering goes on
GetItemsSwallow ==
    /\ pc = "get"
    /\ \E outcome \in GetOutcomes :
          /\ http' = Append(http, [method |-> "GET", url |-> "items",
                                   outcome |-> outcome])
          /\ IF outcome = "ok"
             THEN /\ items' \in DatasetSamples
             ELSE /\ items' = <<>>
          /\ pc' = "render" /\ ui' = ui
    /\ UNCHANGED <<raw_queries, max_pages, country, lang, safe, preset, start_date,
                   end_date, today, queries, tbs, payload, df, df2>>

\* the dataset fetch of run_actor_and_get_items, and the except clauses
GetItems ==
    /\ pc = "get"
    /\ \E outcome \in GetOutcomes :
          /\ http' = Append(http, [method |-> "GET", url |-> "items",
                                   outcome |-> outcome])
          /\ IF outcome = "ok"
             THEN /\ items' \in DatasetSamples
                  /\ pc' = "render" /\ ui' = ui
             ELSE /\ items' = items
                  /\ pc' = "stopped" /\ ui' = ui \o ErrorElements(outcome)
    /\ UNCHANGED <<raw_queries, max_pages, country, lang, safe, preset, start_date,
                   end_date, today, queries, tbs, payload, df, df2>>

\* st.success("Done.") to the end of the script
Render ==
    /\ pc = "render"
    /\ df' = flatten_organic(items)
    /\ ui' = ui \o <<"success", "json:run_metadata", "json:raw_items">>
                \o (IF df' = <<>> THEN <<"warning:no_rows">> ELSE <<"dataframe">>)
    /\ pc' = "done"
    /\ UNCHANGED <<raw_queries, max_pages, country, lang, safe, preset, start_date,
                   end_date, today, queries, tbs, payload, http, items, df2>>

Next == Submit \/ PostRun \/ GetItems \/ Render

Spec == Init /\ [][Next]_vars

---------------------------------------------------------------------------
InSeq(x, s) == \E k \in 1..Len(s) : s[k] = x

PayloadBuilt == DOMAIN payload # {}

Finished == pc \in {"done", "stopped"}

(* C3: with recency = custom and the start date after the end date, or a
   date missing, the submission fails with a validation error: no recency
   filter is produced and no request payload is built or sent. *)
C3_CustomRangeRejected ==
    (preset = <<"Custom range">>
        /\ (start_date = NoDate \/ end_date = NoDate
              \/ DateGT(start_date, end_date))) =>
        /\ tbs = None
        /\ ~PayloadBuilt
        /\ http = <<>>
        /\ pc \notin {"call", "get", "render", "done"}

(* C4 as stated: the payload always carries the query list and the page
   count, and each optional field is in the payload only when the caller
   supplied a non-empty value for it. *)
C4_OptionalOnlyWhenSupplied ==
    PayloadBuilt =>
        /\ {"queries", "maxPagesPerQuery"} \subseteq DOMAIN payload
        /\ "countryCode" \in DOMAIN payload <=> country # <<>>
        /\ "languageCode" \in DOMAIN payload <=> lang # <<>>
        /\ "safeSearch" \in DOMAIN payload <=> safe # <<>>
        /\ "tbs" \in DOMAIN payload <=> (tbs # None /\ tbs # <<>>)

(* C4 amended: the payload always carries the query list, the page count,
   the country code (upper-cased), the language code and the safe-search
   mode, each with the value the caller gave even when that value is empty;
   only the recency filter is in the payload only when one was produced. *)
C4_PayloadKeys ==
    PayloadBuilt =>
        /\ DOMAIN payload \ {"tbs"} =
              {"queries", "maxPagesPerQuery", "countryCode", "languageCode",
               "safeSearch"}
        /\ Len(payload.queries) = Len(queries)
        /\ \A i \in 1..Len(queries) : payload.queries[i].query = queries[i]
        /\ payload.maxPagesPerQuery = max_pages
        /\ payload.countryCode = (IF country = <<"us">> THEN <<"US">> ELSE country)
        /\ payload.languageCode = lang
        /\ payload.safeSearch = safe
        /\ "tbs" \in DOMAIN payload <=> (tbs # None /\ tbs # <<>>)
        /\ "tbs" \in DOMAIN payload => payload.tbs = tbs

C4_Witness ==
    /\ PayloadBuilt
    /\ country = <<>> /\ lang = <<>> /\ preset = <<"Any time">>
    /\ "countryCode" \in DOMAIN payload /\ payload.countryCode = <<>>
    /\ "languageCode" \in DOMAIN payload
    /\ "tbs" \notin DOMAIN payload

(* C5 as stated: when the submission has ended, exactly one HTTP request was
   issued if the query list is non-empty, and none if it is empty. *)
C5_ExactlyOneRequest ==
    Finished =>
        IF queries = <<>> THEN Len(http) = 0 ELSE Len(http) = 1

(* C5 amended: a submission with an empty query list issues no HTTP request;
   one with a non-empty query list calls run_actor_and_get_items once, which
   issues exactly one POST (the run request) and then exactly one GET (the
   dataset fetch) if and only if the POST returned a run with a dataset id:
   two requests on success, one when the run request fails. *)
C5_OneRunOneFetch ==
    /\ Len(http) <= 2
    /\ Len(http) >= 1 => (http[1].method = "POST" /\ queries # <<>>)
    /\ Len(http) = 2 => (http[2].method = "GET" /\ http[1].outcome = "ok")
    /\ (Finished /\ queries = <<>>) => http = <<>>
    /\ (Finished /\ queries # <<>>) =>
          /\ Len(http) >= 1
          /\ Len(http) = (IF http[1].outcome = "ok" THEN 2 ELSE 1)
    /\ pc = "done" => Len(http) = 2

C5_Witness ==
    /\ pc = "done" /\ queries # <<>>
    /\ Len(http) = 2 /\ http[1].method = "POST" /\ http[2].method = "GET"

(* C6: a transport failure (network error, timeout, status that is not 2xx)
   of an HTTP exchange ends the submission in an error state: the error is
   displayed, the failed request is the last one issued and was issued once,
   and neither the success message nor a table is rendered. *)
C6_TransportFailureSurfaced ==
    \A i \in 1..Len(http) :
        http[i].outcome \in TransportFailures =>
            /\ i = Len(http)
            /\ pc = "stopped"
            /\ InSeq("error:http", ui) \/ InSeq("error:exception", ui)
            /\ http[i].outcome = "http_error" => InSeq("code:response_text", ui)
            /\ \A j \in 1..(i - 1) : http[j].method # http[i].method
            /\ ~InSeq("success", ui)
            /\ ~InSeq("dataframe", ui) /\ ~InSeq("warning:no_rows", ui)
            /\ df = <<>>

C6_Witness ==
    /\ Len(http) = 2 /\ http[1].outcome = "ok" /\ http[2].outcome = "timeout"
    /\ pc = "stopped" /\ InSeq("error:exception", ui)

InputLines == SplitLines(raw_queries)

NonBlank ==
    {i \in 1..Len(InputLines) :
        \E k \in 1..Len(InputLines[i]) : ~IsWs(InputLines[i][k])}

NthNonBlank(i) ==
    CHOOSE k \in NonBlank : Cardinality({j \in NonBlank : j <= k}) = i

IsTrimOf(q, line) ==
    \E a, b \in 1..Len(line) :
        /\ a <= b /\ q = SubSeq(line, a, b)
        /\ ~IsWs(line[a]) /\ ~IsWs(line[b])
        /\ \A k \in 1..Len(line) : (k < a \/ k > b) => IsWs(line[k])

(* C7: the query list in the payload is the input lines, trimmed, with the
   empty and whitespace-only lines discarded, in input order; when it is
   empty the submission stops with a validation error before any payload is
   built or sent. *)
C7_QueryList ==
    /\ pc # "idle" =>
          /\ Len(queries) = Cardinality(NonBlank)
          /\ \A i \in 1..Len(queries) :
                IsTrimOf(queries[i], InputLines[NthNonBlank(i)])
    /\ PayloadBuilt =>
          /\ Len(payload.queries) = Cardinality(NonBlank)
          /\ Len(payload.queries) >= 1
          /\ \A i \in 1..Len(payload.queries) :
                IsTrimOf(payload.queries[i].query, InputLines[NthNonBlank(i)])
    /\ (pc # "idle" /\ NonBlank = {}) =>
          /\ pc = "stopped" /\ InSeq("error:no_query", ui)
          /\ ~PayloadBuilt /\ http = <<>>

C7_Witness ==
    /\ PayloadBuilt
    /\ Len(InputLines) > Len(payload.queries)
    /\ \E i \in 1..Len(payload.queries) :
          payload.queries[i].query # InputLines[NthNonBlank(i)]

---------------------------------------------------------------------------

Candidates == CollectRows(items)

Occurrences(u) ==
    {i \in 1..Len(Candidates) :
        Candidates[i].link # None /\ Strip(Candidates[i].link) = u}

FirstOccurrence(u) ==
    CHOOSE i \in Occurrences(u) : \A j \in Occurrences(u) : i <= j

SameFields(row, cand) ==
    /\ row.query = cand.query /\ row.title = cand.title
    /\ row.snippet = cand.snippet /\ row.source = cand.source
    /\ row.date = cand.date

(* C1: the table holds no two rows with the same URL; every URL that occurs
   in the input (after stripping) has at most one row, exactly one unless it
   is a redirect-wrapper URL, and that row carries the query, title, snippet,
   source and date of the URL's first occurrence in iteration order. *)
C1_UniqueFirstOccurrence ==
    pc \in {"flatten_done", "flatten_again_done"} =>
        /\ \A i, j \in 1..Len(df) : i # j => df[i].link # df[j].link
        /\ \A c \in 1..Len(Candidates) :
              Candidates[c].link # None =>
                LET u == Strip(Candidates[c].link)
                    at == {k \in 1..Len(df) : df[k].link = u}
                IN  /\ Cardinality(at) <= 1
                    /\ ~Contains(u, <<"google.com/url">>) => Cardinality(at) = 1
                    /\ \A k \in at :
                          SameFields(df[k], Candidates[FirstOccurrence(u)])

C1_Witness ==
    /\ pc = "flatten_done"
    /\ Cardinality(Occurrences(U1)) >= 2
    /\ \E i, j \in Occurrences(U1) :
          i < j /\ Candidates[i].title # Candidates[j].title
                /\ Candidates[i].query # Candidates[j].query
    /\ \E k \in 1..Len(df) : df[k].link = U1

(* C2: every row of the table has a URL that is present and non-empty. *)
C2_UrlNonEmpty ==
    pc \in {"flatten_done", "flatten_again_done"} =>
        \A k \in 1..Len(df) : df[k].link # None /\ df[k].link # <<>>

(* C9: flatten_organic applied to the records of its own result returns the
   same rows, with the same field values, in the same order. *)
C9_Idempotent == pc = "flatten_again_done" => df2 = df

---------------------------------------------------------------------------

NextDay(d) ==
    IF d.d < DaysInMonth(d.y, d.m) THEN [d EXCEPT !.d = d.d + 1]
    ELSE IF d.m < 12 THEN [y |-> d.y, m |-> d.m + 1, d |-> 1]
    ELSE [y |-> d.y + 1, m |-> 1, d |-> 1]

Is48h == \E c \in {"Last 48 hours", "LAST 48 HOURS", "last 48 hours"} :
             \E i \in 1..Len(preset) : preset[i] = c

WindowDates ==
    {[y |-> yy, m |-> mm, d |-> dd] : yy \in 2022..2024, mm \in 1..12, dd \in 1..31}

(* C8: for recency = last-48h, build_tbs returns the explicit window whose
   end is today and whose start is two days before today, whatever start
   and end the caller passed. *)
C8_Last48hWindow ==
    (pc = "tbs_done" /\ Is48h) =>
        \E s \in WindowDates :
            /\ s.d <= DaysInMonth(s.y, s.m)
            /\ NextDay(NextDay(s)) = today
            /\ tbs = <<"cdr:1,cd_min:">> \o Strftime(s)
                     \o <<",cd_max:">> \o Strftime(today)

C8_Witness ==
    /\ pc = "tbs_done" /\ Is48h
    /\ start_date # NoDate /\ end_date # NoDate /\ DateGT(start_date, end_date)
    /\ today = [y |-> 2024, m |-> 3, d |-> 1]
    /\ tbs = <<"cdr:1,cd_min:", "0", "2", "/", "2", "8", "/", "2", "0", "2", "4",
               ",cd_max:", "0", "3", "/", "0", "1", "/", "2", "0", "2", "4">>

=============================================================================
